---- MODULE Spec2Model ----
(***************************************************************************)
(* Model of experiment_partitions.py: the partition-scaling load driver.   *)
(*                                                                         *)
(* State: the module-level Metrics singleton, the simulated users (each    *)
(* either not yet started, between two tasks, or suspended in its HTTP     *)
(* call with the server's response in flight), the wall clock, the run     *)
(* lifecycle, the CSV results file and the load framework's own request    *)
(* statistics.                                                             *)
(*                                                                         *)
(* Scheduling: the users are cooperatively scheduled greenlets.  A user    *)
(* suspends only inside client.post (and in its pacing delay between two   *)
(* tasks), so everything submit_job does after the response has arrived    *)
(* is one atomic step, and so is each event listener.                      *)
(*                                                                         *)
(* Numbers: Python floats are modelled as exact rationals <<n, d>> in      *)
(* lowest terms; round(x, 2) is modelled as the number of hundredths,      *)
(* rounded half to even.  Clock values are whole seconds.                  *)
(*                                                                         *)
(* Not modelled: the text of the request (type tag, orderId, amount,       *)
(* timestamps, headers, client_id), the per-user attribute jobs_submitted  *)
(* (written on a success, never read), and everything printed.             *)
(***************************************************************************)
EXTENDS Integers, Sequences, FiniteSets, TLC

VARIABLES
    metrics,    \* the Metrics singleton (line 57)
    users,      \* the PartitionScalingUser instances
    now,        \* time.time(), in seconds
    running,    \* TRUE between test_start and test_stop
    run_no,     \* number of test_start events fired so far
    csv_file,   \* experiment6_partition_scaling_results.csv
    stats,      \* the load framework's request statistics
    server,     \* the responses the server under test gives (fixed per run of the model)
    run_log     \* history: status code -> responses handled since the last reset

vars == <<metrics, users, now, running, run_no, csv_file, stats, server, run_log>>

\* ------------------------------------------------------------------ bounds

\* Simulated users.
MaxUsers == 2
\* Requests sent over the whole life of the process.
MaxRequests == 2
\* The last second of the clock.
MaxTime == 1
\* Runs (test_start events).
MaxRuns == 2

Users == 1..MaxUsers

\* ------------------------------------------------------- program constants

PartitionCount == 16
WorkerCount == 4

\* Python's None for start_time, and for a key that dict.get does not find.
NoTime == <<>>
Missing == "None"

\* ------------------------------------------------------------------ inputs

\* 0 is the status code of a response that never arrived (connection
\* refused, timeout); the others cover every branch of the classification.
StatusCodes == {0, 200, 201, 202, 302, 404, 429, 503}

\* Response bodies: text that is not JSON, JSON that is not an object, and
\* JSON objects with or without the keys id and jobId ("" is a falsy id).
JsonObjects ==
    { [kind |-> "object", id |-> x, jobId |-> y] :
        x \in {Missing, "", "j1"}, y \in {Missing, "j2"} }

Bodies ==
    { [kind |-> "invalid", id |-> Missing, jobId |-> Missing],
      [kind |-> "array", id |-> Missing, jobId |-> Missing] } \cup JsonObjects

EmptyBody == [kind |-> "object", id |-> Missing, jobId |-> Missing]

\* The body is read on a 202 only; the other codes carry the empty object.
Responses ==
    { [status_code |-> 202, body |-> b] : b \in Bodies }
    \cup { [status_code |-> c, body |-> EmptyBody] : c \in StatusCodes \ {202} }

NoResponse == [status_code |-> 0, body |-> EmptyBody]

\* One response per counter: accepted with an id, rate limited, server error.
CoreResponses ==
    { [status_code |-> 202, body |-> [kind |-> "object", id |-> "j1", jobId |-> Missing]],
      [status_code |-> 429, body |-> EmptyBody],
      [status_code |-> 503, body |-> EmptyBody] }

\* ----------------------------------------------------------------- numbers

RECURSIVE Gcd(_, _)
Gcd(a, b) == IF b = 0 THEN a ELSE Gcd(b, a % b)

Zero == <<0, 1>>

\* n / d as a float, d > 0, n >= 0.
Div(n, d) == LET g == Gcd(n, d) IN <<n \div g, d \div g>>

\* x * k for a float x.
Times(x, k) == Div(x[1] * k, x[2])

\* round(x, 2), in hundredths.
Round2(x) ==
    LET q == (x[1] * 100) \div x[2]
        r == (x[1] * 100) % x[2]
    IN  IF 2 * r < x[2] THEN q
        ELSE IF 2 * r > x[2] THEN q + 1
        ELSE IF q % 2 = 0 THEN q ELSE q + 1

\* ----------------------------------------------------------------- Metrics

MetricsInit ==
    [ total_jobs_submitted   |-> 0,
      successful_submissions |-> 0,
      failed_submissions     |-> 0,
      rate_limited           |-> 0,
      start_time             |-> NoTime,
      partition_count        |-> PartitionCount,
      worker_count           |-> WorkerCount,
      job_ids                |-> <<>> ]

ResetKeepsFailed(m, t) ==
    [ m EXCEPT !.total_jobs_submitted = 0,
               !.successful_submissions = 0,
               !.rate_limited = 0,
               !.start_time = <<t>>,
               !.job_ids = <<>> ]

Reset(m, t) ==
    [ m EXCEPT !.total_jobs_submitted = 0,
               !.successful_submissions = 0,
               !.failed_submissions = 0,
               !.rate_limited = 0,
               !.start_time = <<t>>,
               !.job_ids = <<>> ]

GetThroughputOfTotal(m, t) ==
    IF m.start_time = NoTime THEN Zero
    ELSE LET elapsed == t - m.start_time[1]
         IN  IF elapsed > 0 THEN Div(m.total_jobs_submitted, elapsed) ELSE Zero

GetThroughput(m, t) ==
    IF m.start_time = NoTime THEN Zero
    ELSE LET elapsed == t - m.start_time[1]
         IN  IF elapsed > 0 THEN Div(m.successful_submissions, elapsed) ELSE Zero

GetErrorRateOfTotal(m) ==
    LET total == m.total_jobs_submitted
    IN  IF total > 0 THEN Times(Div(m.failed_submissions, total), 100) ELSE Zero

GetErrorRate(m) ==
    LET total == m.successful_submissions + m.failed_submissions
    IN  IF total > 0 THEN Times(Div(m.failed_submissions, total), 100) ELSE Zero

\* ------------------------------------------------- response classification

\* Python truthiness of a value read from the body.
Truthy(v) == v \notin {Missing, ""}

JobIdFieldFirst(body) == IF Truthy(body.jobId) THEN body.jobId ELSE body.id

\* job_data.get('id') or job_data.get('jobId')
JobIdOf(body) == IF Truthy(body.id) THEN body.id ELSE body.jobId

\* The try block of the 202 branch: response.json() raises on text that is
\* not JSON, .get raises on JSON that is not an object, and the bare except
\* swallows both.
ExtractJobId(ids, body) ==
    IF body.kind # "object" THEN ids
    ELSE LET job_id == JobIdOf(body)
         IN  IF Truthy(job_id) THEN Append(ids, job_id) ELSE ids

OnlyOk == {200}

\* elif response.status_code in [200, 201]
AlsoAcceptable == {200, 201}

\* metrics.total_jobs_submitted += 1, before the classification branch.
TrackRequest(m) == [m EXCEPT !.total_jobs_submitted = @ + 1]

RateLimitedUncounted(m) == m

\* The 429 branch.
RateLimited(m) == [m EXCEPT !.rate_limited = @ + 1]

UnexpectedUncounted(m) == m

\* The final else branch.
Unexpected(m) == [m EXCEPT !.failed_submissions = @ + 1]

\* The if / elif chain's effect on the metrics.
Classify(m, response) ==
    LET code == response.status_code
    IN  IF code = 202
        THEN [m EXCEPT !.successful_submissions = @ + 1,
                       !.job_ids = ExtractJobId(@, response.body)]
        ELSE IF code \in AlsoAcceptable
        THEN [m EXCEPT !.successful_submissions = @ + 1]
        ELSE IF code = 429
        THEN RateLimited(m)
        ELSE IF code >= 500
        THEN [m EXCEPT !.failed_submissions = @ + 1]
        ELSE IF code >= 400
        THEN [m EXCEPT !.failed_submissions = @ + 1]
        ELSE Unexpected(m)

HandleResponseTracksAccepted(m, response) ==
    Classify(IF response.status_code < 400 THEN TrackRequest(m) ELSE m, response)

\* The body of the with block: the total, then the chain.
HandleResponse(m, response) == Classify(TrackRequest(m), response)

Success == [ok |-> TRUE, message |-> <<>>]
Failure(prefix, code) == [ok |-> FALSE, message |-> <<prefix, code>>]

\* What the chain reports to the framework: response.success(), or
\* response.failure(f"<prefix> {status_code}").
Report(code) ==
    IF code = 202 THEN Success
    ELSE IF code \in AlsoAcceptable THEN Success
    ELSE IF code = 429 THEN Success
    ELSE IF code >= 500 THEN Failure("Server error", code)
    ELSE IF code >= 400 THEN Failure("Client error", code)
    ELSE Failure("Unexpected status", code)

\* The average response time the framework has aggregated, in ms, once it
\* has recorded a request: a sample value, the driver only copies it.
SampleResponseTime == 125

\* The framework's accounting of a reported response.
RecordRequest(s, outcome) ==
    [ num_requests |-> s.num_requests + 1,
      avg_response_time |-> SampleResponseTime,
      num_failures |-> s.num_failures + (IF outcome.ok THEN 0 ELSE 1),
      errors       |-> IF outcome.ok THEN s.errors
                       ELSE s.errors \cup {outcome.message} ]

\* ------------------------------------------------------------ the CSV file

Header ==
    [ kind |-> "header",
      cols |-> << "timestamp", "partition_count", "worker_count",
                  "total_submitted", "successful", "failed", "rate_limited",
                  "error_rate_%", "duration_sec", "throughput_jobs_per_sec",
                  "avg_response_time_ms" >> ]

\* The data row of on_test_stop; the rounded columns are in hundredths.
ResultRow(m, timestamp, error_rate, duration, throughput, avg_response_time) ==
    [ kind |-> "data",
      cols |-> [ timestamp         |-> timestamp,
                 partition_count   |-> m.partition_count,
                 worker_count      |-> m.worker_count,
                 total_submitted   |-> m.total_jobs_submitted,
                 successful        |-> m.successful_submissions,
                 failed            |-> m.failed_submissions,
                 rate_limited      |-> m.rate_limited,
                 error_rate        |-> Round2(error_rate),
                 duration_sec      |-> Round2(<<duration, 1>>),
                 throughput        |-> Round2(throughput),
                 avg_response_time |-> Round2(<<avg_response_time, 1>>) ] ]

WriteRowsHeaderAlways(file, row) ==
    [ exists |-> TRUE, rows |-> file.rows \o <<Header, row>> ]

\* open(csv_file, 'a'), the header if the file did not exist, the data row.
WriteRows(file, row) ==
    [ exists |-> TRUE,
      rows   |-> IF ~file.exists
                 THEN file.rows \o <<Header, row>>
                 ELSE Append(file.rows, row) ]

\* ------------------------------------------------------------------- state

NewUser == [pc |-> "new", response |-> NoResponse]

Start ==
    /\ metrics = MetricsInit
    /\ users = [u \in Users |-> NewUser]
    /\ now = 0
    /\ running = FALSE
    /\ run_no = 0
    /\ csv_file = [exists |-> FALSE, rows |-> <<>>]
    /\ stats = [num_requests |-> 0, avg_response_time |-> 0,
                num_failures |-> 0, errors |-> {}]
    /\ run_log = [c \in StatusCodes |-> 0]

\* A server that answers with the core responses.
Init == Start /\ server = CoreResponses

\* A server that may give every response.
InitDriver == Start /\ server = Responses

InFlight == Cardinality({u \in Users : users[u].pc = "waiting"})

\* ----------------------------------------------------------------- actions

OnStartAlwaysSets(m, t) == [m EXCEPT !.start_time = <<t>>]

\* on_start's effect on the metrics.
OnStartMetrics(m, t) ==
    IF m.start_time = NoTime THEN [m EXCEPT !.start_time = <<t>>] ELSE m

\* PartitionScalingUser.on_start.  The source does not say when the
\* framework starts a user, so a user may start before, during or after a
\* run.
OnStart(u) ==
    /\ users[u].pc = "new"
    /\ metrics' = OnStartMetrics(metrics, now)
    /\ users' = [users EXCEPT ![u].pc = "idle"]
    /\ UNCHANGED <<now, running, run_no, csv_file, stats, server, run_log>>

\* submit_job up to its suspension in client.post: the request is sent and
\* the response the server will give is in flight.
SubmitJobPost(u) ==
    /\ users[u].pc = "idle"
    /\ stats.num_requests + InFlight < MaxRequests
    /\ \E r \in server :
         users' = [users EXCEPT ![u].pc = "waiting", ![u].response = r]
    /\ UNCHANGED <<metrics, now, running, run_no, csv_file, stats, server, run_log>>

\* submit_job from the response's arrival to the end of the with block.
SubmitJobHandle(u) ==
    /\ users[u].pc = "waiting"
    /\ LET response == users[u].response
           code == response.status_code
       IN  /\ metrics' = HandleResponse(metrics, response)
           /\ users' = [users EXCEPT ![u].pc = "idle",
                                      ![u].response = NoResponse]
           /\ stats' = RecordRequest(stats, Report(code))
           /\ run_log' = [run_log EXCEPT ![code] = @ + 1]
    /\ UNCHANGED <<now, running, run_no, csv_file, server>>

\* on_test_start.  The framework fires test_start and test_stop in turn.
TestStart ==
    /\ ~running
    /\ run_no < MaxRuns
    /\ metrics' = Reset(metrics, now)
    /\ running' = TRUE
    /\ run_no' = run_no + 1
    /\ run_log' = [c \in StatusCodes |-> 0]
    /\ UNCHANGED <<users, now, csv_file, stats, server>>

\* on_test_stop.  The clock is read for the duration and again inside
\* get_throughput; the second reading may be later than the first.
TestStop ==
    /\ running
    /\ running' = FALSE
    /\ IF metrics.start_time = NoTime
       THEN UNCHANGED <<now, csv_file>>
       ELSE \E t2 \in {t \in now..(now + 1) : t <= MaxTime} :
              LET duration == now - metrics.start_time[1]
                  throughput == GetThroughput(metrics, t2)
                  error_rate == GetErrorRate(metrics)
                  avg_response_time ==
                      IF stats.num_requests > 0 THEN stats.avg_response_time ELSE 0
              IN  /\ csv_file' = WriteRows(csv_file,
                        ResultRow(metrics, t2, error_rate, duration,
                                  throughput, avg_response_time))
                  /\ now' = t2
    /\ UNCHANGED <<metrics, users, run_no, stats, server, run_log>>

\* Time passes.
Tick ==
    /\ now < MaxTime
    /\ now' = now + 1
    /\ UNCHANGED <<metrics, users, running, run_no, csv_file, stats, server, run_log>>

Next ==
    \/ \E u \in Users : OnStart(u)
    \/ \E u \in Users : SubmitJobPost(u)
    \/ \E u \in Users : SubmitJobHandle(u)
    \/ TestStart
    \/ TestStop
    \/ Tick

Spec == Init /\ [][Next]_vars

\* The driver alone: the users and the reset at run start, against a server
\* that may give every response.  Time and the results file stand still.
NextDriver ==
    \/ \E u \in Users : OnStart(u)
    \/ \E u \in Users : SubmitJobPost(u)
    \/ \E u \in Users : SubmitJobHandle(u)
    \/ TestStart

SpecDriver == InitDriver /\ [][NextDriver]_vars

\* ------------------------------------------------------------ vocabulary

\* The steps, told by what they do to the control state.
HandleStep(u) == users[u].pc = "waiting" /\ users'[u].pc = "idle"
OnStartStep(u) == users[u].pc = "new" /\ users'[u].pc = "idle"
TestStartStep == ~running /\ running'
TestStopStep == running /\ ~running'

RECURSIVE SumOver(_, _)
SumOver(f, S) ==
    IF S = {} THEN 0
    ELSE LET x == CHOOSE y \in S : TRUE IN f[x] + SumOver(f, S \ {x})

\* The classification table of the specification.
TableSuccess == {200, 201, 202}
TableRateLimited == {429}
TableFailure == StatusCodes \ (TableSuccess \cup TableRateLimited)

Handled(codes) == SumOver(run_log, codes)

DataRows == { i \in 1..Len(csv_file.rows) : csv_file.rows[i].kind = "data" }

Abs(x) == IF x < 0 THEN -x ELSE x

\* h hundredths is n / d rounded to two decimals.
IsRounded(h, n, d) == 2 * Abs(h * d - n * 100) <= d

\* ------------------------------------------------------------------ claims

\* C1: whenever no response is half-way through its classification (every
\* state of the model: the handling of a response is one step), for any
\* status codes, any number of users and any interleaving with reset(),
\* total_jobs_submitted = successful_submissions + failed_submissions +
\* rate_limited.
C1_CountersAddUp ==
    metrics.total_jobs_submitted =
        metrics.successful_submissions + metrics.failed_submissions
        + metrics.rate_limited

\* A reset has run, and a rate-limited and a failed response were classified
\* after it.
C1_Witness ==
    /\ run_no > 0
    /\ metrics.rate_limited = 1
    /\ metrics.failed_submissions = 1

\* C2: handling a response increments exactly one outcome counter by one and
\* leaves the other two alone: 200, 201, 202 count as successful and are
\* reported as success; 429 counts as rate limited and is reported as
\* success; every other code counts as failed and is reported as a failure
\* whose message includes the status code.
C2_OneCounterPerStatus ==
    [][ \A u \in Users : HandleStep(u) =>
          LET code == users[u].response.status_code
              ds == metrics'.successful_submissions - metrics.successful_submissions
              df == metrics'.failed_submissions - metrics.failed_submissions
              dr == metrics'.rate_limited - metrics.rate_limited
              reportedOk == /\ stats'.num_requests = stats.num_requests + 1
                            /\ stats'.num_failures = stats.num_failures
                            /\ stats'.errors = stats.errors
              reportedFailure ==
                  /\ stats'.num_requests = stats.num_requests + 1
                  /\ stats'.num_failures = stats.num_failures + 1
                  /\ \E msg \in stats'.errors :
                        /\ msg[2] = code
                        /\ stats'.errors = stats.errors \cup {msg}
          IN  IF code \in TableSuccess
              THEN <<ds, df, dr>> = <<1, 0, 0>> /\ reportedOk
              ELSE IF code \in TableRateLimited
              THEN <<ds, df, dr>> = <<0, 0, 1>> /\ reportedOk
              ELSE <<ds, df, dr>> = <<0, 1, 0>> /\ reportedFailure
      ]_vars

\* A 201 and a 404 have been handled.
C2_Witness ==
    /\ run_log[201] = 1
    /\ run_log[404] = 1
    /\ <<"Client error", 404>> \in stats.errors

\* C3: handling a 202 increments successful_submissions (and the total) by
\* one and reports success whatever the body is.  A body that does not
\* parse to a JSON object leaves job_ids unchanged; an object appends its
\* job identifier, the non-empty value of id, else the non-empty value of
\* jobId, and leaves job_ids unchanged when it has neither.  No other
\* counter changes.
C3_AcceptedWhateverTheBody ==
    [][ \A u \in Users :
          (HandleStep(u) /\ users[u].response.status_code = 202) =>
            LET body == users[u].response.body
                hasId == body.id \notin {Missing, ""}
                hasJobId == body.jobId \notin {Missing, ""}
            IN  /\ metrics'.successful_submissions = metrics.successful_submissions + 1
                /\ metrics'.total_jobs_submitted = metrics.total_jobs_submitted + 1
                /\ metrics'.failed_submissions = metrics.failed_submissions
                /\ metrics'.rate_limited = metrics.rate_limited
                /\ stats'.num_failures = stats.num_failures
                /\ stats'.errors = stats.errors
                /\ metrics'.job_ids =
                      IF body.kind # "object" THEN metrics.job_ids
                      ELSE IF hasId THEN Append(metrics.job_ids, body.id)
                      ELSE IF hasJobId THEN Append(metrics.job_ids, body.jobId)
                      ELSE metrics.job_ids
      ]_vars

\* Two 202 responses were handled since the reset: one recorded a jobId, the
\* other recorded nothing.
C3_Witness ==
    /\ run_log[202] = 2
    /\ metrics.successful_submissions = 2
    /\ metrics.job_ids = <<"j2">>

\* C4: starting with the file absent, after any sequence of completed runs
\* the file holds one header row, first, then one data row per completed
\* run (and does not exist before the first run completes).
C4_OneHeaderOneRowPerRun ==
    LET completed == run_no - (IF running THEN 1 ELSE 0)
    IN  IF completed = 0
        THEN ~csv_file.exists /\ csv_file.rows = <<>>
        ELSE /\ csv_file.exists
             /\ Len(csv_file.rows) = completed + 1
             /\ csv_file.rows[1].kind = "header"
             /\ csv_file.rows[1].cols = Header.cols
             /\ \A i \in 2..Len(csv_file.rows) : csv_file.rows[i].kind = "data"

\* Two runs have completed.
C4_Witness ==
    /\ run_no = 2
    /\ ~running
    /\ Len(csv_file.rows) = 3

\* C5: reset() zeroes the four counters and empties job_ids and leaves
\* partition_count and worker_count alone; and the row a run stop writes
\* counts exactly the responses classified since that run's start, by the
\* classification table.
C5_ResetBetweenRuns ==
    [][ /\ TestStartStep =>
             /\ metrics'.total_jobs_submitted = 0
             /\ metrics'.successful_submissions = 0
             /\ metrics'.failed_submissions = 0
             /\ metrics'.rate_limited = 0
             /\ metrics'.job_ids = <<>>
             /\ metrics'.partition_count = metrics.partition_count
             /\ metrics'.worker_count = metrics.worker_count
        /\ TestStopStep =>
             LET row == csv_file'.rows[Len(csv_file'.rows)].cols
             IN  /\ row.total_submitted = Handled(StatusCodes)
                 /\ row.successful = Handled(TableSuccess)
                 /\ row.rate_limited = Handled(TableRateLimited)
                 /\ row.failed = Handled(TableFailure)
                 /\ row.partition_count = PartitionCount
                 /\ row.worker_count = WorkerCount
      ]_vars

\* Two runs have completed: the first classified one failure, the second one
\* success and no failure.
C5_Witness ==
    /\ run_no = 2
    /\ ~running
    /\ Len(csv_file.rows) = 3
    /\ csv_file.rows[2].cols.failed = 1
    /\ csv_file.rows[2].cols.total_submitted = 1
    /\ csv_file.rows[3].cols.failed = 0
    /\ csv_file.rows[3].cols.successful = 1
    /\ csv_file.rows[3].cols.total_submitted = 1

\* C6: get_error_rate() is 0 when successful + failed = 0 and otherwise
\* failed / (successful + failed) * 100, whatever rate_limited is; the
\* error rate of every row written is that value, rounded.
C6_ErrorRate ==
    LET s == metrics.successful_submissions
        f == metrics.failed_submissions
        e == GetErrorRate(metrics)
    IN  /\ (s + f = 0) => e = Zero
        /\ (s + f > 0) => e[1] * (s + f) = f * 100 * e[2]
        /\ \A r \in 0..MaxRequests :
              GetErrorRate([metrics EXCEPT !.rate_limited = r]) = e
        /\ \A i \in DataRows :
              LET row == csv_file.rows[i].cols
              IN  IF row.successful + row.failed = 0
                  THEN row.error_rate = 0
                  ELSE IsRounded(row.error_rate, row.failed * 100,
                                 row.successful + row.failed)

\* A row of a run with one failed and one rate-limited response: 100.00 %.
C6_Witness ==
    \E i \in DataRows :
        /\ csv_file.rows[i].cols.failed = 1
        /\ csv_file.rows[i].cols.rate_limited = 1
        /\ csv_file.rows[i].cols.error_rate = 10000

C8_NoLostIncrement == metrics.total_jobs_submitted = Handled(StatusCodes)

\* One response has been handled, a failure, while another user is suspended
\* in its HTTP call.
C8_Witness ==
    /\ metrics.total_jobs_submitted = 1
    /\ metrics.failed_submissions = 1
    /\ \E u \in Users : users[u].pc = "waiting"

\* C9 as claimed: a response with status code 0 (no HTTP status received)
\* leaves total_jobs_submitted, the three outcome counters and job_ids
\* unchanged.
C9_NetworkFailureUnclassified ==
    [][ \A u \in Users :
          (HandleStep(u) /\ users[u].response.status_code = 0) =>
            metrics' = metrics
      ]_vars

\* C9 as amended: a response with status code 0 takes the final else branch:
\* total_jobs_submitted and failed_submissions increase by one,
\* successful_submissions, rate_limited and job_ids are unchanged, and it is
\* reported to the framework as a failure, "Unexpected status 0".
C9_NetworkFailureCountedFailed ==
    [][ \A u \in Users :
          (HandleStep(u) /\ users[u].response.status_code = 0) =>
            /\ metrics'.total_jobs_submitted = metrics.total_jobs_submitted + 1
            /\ metrics'.failed_submissions = metrics.failed_submissions + 1
            /\ metrics'.successful_submissions = metrics.successful_submissions
            /\ metrics'.rate_limited = metrics.rate_limited
            /\ metrics'.job_ids = metrics.job_ids
            /\ stats'.num_failures = stats.num_failures + 1
            /\ stats'.errors = stats.errors \cup {<<"Unexpected status", 0>>}
      ]_vars

\* A response with status code 0 has been handled.
C9_Witness ==
    /\ run_log[0] = 1
    /\ metrics.failed_submissions = 1
    /\ <<"Unexpected status", 0>> \in stats.errors

\* C10: on_start sets start_time to the current time only when it is unset,
\* and once start_time is set only a run start changes it: no on_start, no
\* submit_job, no run stop.
C10_StartTimeSetOnce ==
    [][ /\ \A u \in Users : OnStartStep(u) =>
              metrics'.start_time =
                  IF metrics.start_time = NoTime THEN <<now>>
                  ELSE metrics.start_time
        /\ (metrics.start_time # NoTime /\ ~TestStartStep) =>
              metrics'.start_time = metrics.start_time
      ]_vars

\* No run has started; the first user set start_time at 0, and at time 1
\* every user has started.
C10_Witness ==
    /\ run_no = 0
    /\ metrics.start_time = <<0>>
    /\ now = 1
    /\ \A u \in Users : users[u].pc # "new"

====
